---------------------------- MODULE Spec2Model ----------------------------
(***************************************************************************)
(* FundFinder recommendation core: the file cache (utils/cache_handler.py) *)
(* and the resolver, filter, scorer and ranker (utils/data_fetcher.py).    *)
(*                                                                         *)
(* Units.  Time is counted in minutes.  beta is counted in tenths (11 is   *)
(* 1.1), dividend_yield in tenths of a percent (15 is 1.5%), market cap in *)
(* billions of dollars, historical_return and desired_return in whole      *)
(* percent.  A score is the exact rational                                *)
(* calculate_overall_score / ScoreDen.                                     *)
(*                                                                         *)
(* The clock is the wall clock datetime.now() reads.  An entry's timestamp *)
(* is datetime.now().timestamp() at the save and comes back through        *)
(* datetime.fromtimestamp() at the read: under one UTC offset the two are  *)
(* inverse, and the age the read computes is the clock's difference.  The  *)
(* snapshot is a dict of strings, numbers and a dict of numbers, which     *)
(* json.dump and json.load carry unchanged.                                *)
(***************************************************************************)
EXTENDS Integers, Sequences, FiniteSets, TLC

VARIABLES
    clock,              \* datetime.now(), minutes
    cache,              \* data/cache/<key>_cache.json, one file per key
    pc,                 \* get_recommendations: "idle", "loop", "done"
    user_preferences,   \* the request's profile
    num_recommendations,
    candidate_symbols,  \* list(set(...)): the enumeration order of the sweep
    idx,                \* number of candidates already analysed
    qualified_stocks,   \* list of [score, stock]
    result,             \* what get_recommendations returned
    resolved,           \* history: what fetch_stock_details returned per symbol
    failed,             \* history: symbols whose provider fetch failed
    stored,             \* history: per key, the last snapshot a fetch committed
    last,               \* history: the last fetch_stock_details call
    requests,           \* number of requests started
    fetches,            \* number of direct fetch_stock_details calls made
    wpc, wsym, wdata, wts, woff,  \* save_to_cache in progress, per writer
    wold,               \* history: what a read returned when the save began
    saves,              \* history: the (data, timestamp) of every save call
    rres,               \* history: the last get_cached_data call
    reads,              \* number of direct get_cached_data calls made
    scoring,            \* one evaluation of filter and score
    web                 \* one submission of the form, or one call of get_recommendations

vars == <<clock, cache, pc, user_preferences, num_recommendations,
          candidate_symbols, idx, qualified_stocks, result, resolved, failed,
          stored, last, requests, fetches, wpc, wsym, wdata, wts, woff, wold, saves,
          rres, reads, scoring, web>>

requestVars == <<pc, user_preferences, num_recommendations, candidate_symbols,
                 idx, qualified_stocks, result, resolved, failed, requests>>
writerVars == <<wpc, wsym, wdata, wts, woff, wold, saves>>
readerVars == <<rres, reads>>

-----------------------------------------------------------------------------
(* Bounds of the model *)

MaxRequests == 1      \* requests started in one behaviour
MaxFetches == 2       \* direct fetch_stock_details calls in one behaviour
MaxSaves == 2         \* direct save_to_cache calls in one behaviour
MaxReads == 1         \* direct get_cached_data calls in one behaviour
ExtraMinutes == 1     \* how far the clock runs past one freshness window

(* Program constants *)

HOURS == 24           \* timedelta(hours=24)
NaN == -1000000       \* float('nan'): tested with IsNaN only, never compared
NoneBeta == -2000000  \* info['beta'] is None: any comparison raises TypeError

TTL == HOURS * 60
MaxClock == TTL + ExtraMinutes

None == [none |-> TRUE]

Min(a, b) == IF a <= b THEN a ELSE b
Max(a, b) == IF a >= b THEN a ELSE b
Abs(a) == IF a >= 0 THEN a ELSE -a
Range(s) == {s[i] : i \in DOMAIN s}
IsNaN(x) == x = NaN

RECURSIVE Sum(_, _)
Sum(f, S) == IF S = {} THEN 0
             ELSE LET x == CHOOSE y \in S : TRUE IN f[x] + Sum(f, S \ {x})

-----------------------------------------------------------------------------
(* str.lower() on the strings of the model that are not in lower case *)
LowerPairs ==
    {<<"AAPL", "aapl">>,
     <<"MSFT", "msft">>,
     <<"GOOGL", "googl">>,
     <<"META", "meta">>,
     <<"NVDA", "nvda">>,
     <<"JNJ", "jnj">>,
     <<"UNH", "unh">>,
     <<"PFE", "pfe">>,
     <<"EQUITY", "equity">>,
     <<"ETF", "etf">>,
     <<"MUTUALFUND", "mutualfund">>,
     <<"Technology", "technology">>,
     <<"TECHNOLOGY", "technology">>,
     <<"Information Technology", "information technology">>,
     <<"INFORMATION TECHNOLOGY", "information technology">>,
     <<"IT Services", "it services">>,
     <<"IT SERVICES", "it services">>,
     <<"Semiconductors", "semiconductors">>,
     <<"SEMICONDUCTORS", "semiconductors">>,
     <<"Software", "software">>,
     <<"SOFTWARE", "software">>,
     <<"Communication Services", "communication services">>,
     <<"COMMUNICATION SERVICES", "communication services">>,
     <<"Internet Content & Information", "internet content & information">>,
     <<"INTERNET CONTENT & INFORMATION", "internet content & information">>,
     <<"Electronic Components", "electronic components">>,
     <<"ELECTRONIC COMPONENTS", "electronic components">>,
     <<"Semiconductor Equipment & Materials", "semiconductor equipment & materials">>,
     <<"SEMICONDUCTOR EQUIPMENT & MATERIALS", "semiconductor equipment & materials">>,
     <<"Computer Hardware", "computer hardware">>,
     <<"COMPUTER HARDWARE", "computer hardware">>,
     <<"Tech", "tech">>,
     <<"TECH", "tech">>,
     <<"Healthcare", "healthcare">>,
     <<"HEALTHCARE", "healthcare">>,
     <<"Consumer Cyclical", "consumer cyclical">>,
     <<"Unknown", "unknown">>,
     <<"Financial Services", "financial services">>}

LowerTable ==
    [x \in {p[1] : p \in LowerPairs} |-> (CHOOSE p \in LowerPairs : p[1] = x)[2]]

Lower(s) == IF s \in DOMAIN LowerTable THEN LowerTable[s] ELSE s

(* dict.get(key, default) *)
Get(d, key, default) == IF key \in DOMAIN d THEN d[key] ELSE default

-----------------------------------------------------------------------------
(* Static taxonomy *)

(* The tables are cut to the first three symbols of two sectors. *)
sector_mapping ==
    [tech |-> <<"AAPL", "MSFT", "GOOGL">>,
     healthcare |-> <<"JNJ", "UNH", "PFE">>]

get_sector_stocks(sector) ==
    IF Lower(sector) \in DOMAIN sector_mapping
    THEN sector_mapping[Lower(sector)]
    ELSE <<>>

sector_overrides == {"GOOGL", "GOOG", "META", "AMZN", "NFLX", "AAPL", "MSFT",
                     "NVDA", "AMD", "INTC", "CSCO", "ADBE", "CRM", "TSLA"}

sector_map == {"technology", "information technology", "it services",
               "semiconductors", "software", "communication services",
               "internet content & information", "electronic components",
               "semiconductor equipment & materials", "computer hardware"}

(* A variant of the map whose values are keys of the map themselves *)
standardize_sector_chained(sector) ==
    IF Lower(sector) = "technology" THEN "tech"
    ELSE IF Lower(sector) \in sector_map THEN "technology"
    ELSE Lower(sector)

standardize_sector(sector) ==
    IF Lower(sector) \in sector_map THEN "tech" ELSE Lower(sector)


etf_mapping ==
    [tech |-> <<"XLK", "VGT", "IYW">>,
     healthcare |-> <<"XLV", "VHT", "IYH">>]

get_sector_etfs(sector) ==
    IF Lower(sector) \in DOMAIN etf_mapping
    THEN etf_mapping[Lower(sector)]
    ELSE <<>>

-----------------------------------------------------------------------------
(* The Data Provider's answer for one symbol: ticker.info and the one-year *)
(* history, or a failure.  historical_return is what lines 104-112 derive  *)
(* from the history; the pass-through fields name, industry, price and     *)
(* volatility are read by no rule and are left out.                        *)

ProviderFail == [ok |-> FALSE]

Info(sector, quoteType, beta, marketCap, dividendYield, ret, esg) ==
    [ok |-> TRUE, sector |-> sector, quoteType |-> quoteType, beta |-> beta,
     marketCap |-> marketCap, dividendYield |-> dividendYield,
     historical_return |-> ret, esg |-> esg]

Esg(total, environment, social, governance) ==
    [totalEsg |-> total, environmentScore |-> environment,
     socialScore |-> social, governanceScore |-> governance]

(* lines 114-136: the snapshot built from a provider answer *)
BuildStockData(symbol, info) ==
    [symbol |-> symbol,
     sector |-> IF symbol \in sector_overrides THEN "tech" ELSE Lower(info.sector),
     quoteType |-> info.quoteType,
     beta |-> info.beta,
     marketCap |-> info.marketCap,
     dividend_yield |-> IF info.dividendYield # 0 THEN info.dividendYield ELSE 0,
     historical_return |-> info.historical_return,
     esg_data |-> info.esg]

-----------------------------------------------------------------------------
(* Criteria filter *)

get_investment_types(ticker_info) ==
    LET quote_type == Lower(Get(ticker_info, "quoteType", ""))
        market_cap == Get(ticker_info, "marketCap", 0)
        dividend_yield == Get(ticker_info, "dividendYield", 0)
    IN  (IF quote_type \in {"equity", "stock", ""} THEN {"stocks"} ELSE {})
        \cup (IF quote_type = "etf" THEN {"etf"} ELSE {})
        \cup (IF quote_type = "mutualfund" THEN {"mutual_funds"} ELSE {})
        \cup (IF quote_type = "bond" THEN {"bonds"} ELSE {})
        \cup (IF market_cap > 10 THEN {"etf", "mutual_funds"} ELSE {})
        \cup (IF dividend_yield > 0 THEN {"mutual_funds"} ELSE {})

TypeCheck(stock_data, prefs) ==
    LET valid_types == IF Range(prefs.investment_types) = {} THEN {"stocks"}
                       ELSE Range(prefs.investment_types)
    IN  get_investment_types(stock_data) \cap valid_types # {}

SectorCheck(stock_data, prefs) ==
    standardize_sector(Get(stock_data, "sector", ""))
        \in {standardize_sector(s) : s \in Range(prefs.sectors)}

(* line 586 raises TypeError when beta is None; the earlier checks return first *)
matches_raises(stock_data, prefs) ==
    /\ TypeCheck(stock_data, prefs)
    /\ SectorCheck(stock_data, prefs)
    /\ stock_data.beta = NoneBeta

(* A variant of the risk check with open intervals *)
RiskCheck_open(stock_data, prefs) ==
    CASE prefs.risk_level = "low" -> stock_data.beta < 11
      [] prefs.risk_level = "medium" -> 7 < stock_data.beta /\ stock_data.beta < 14
      [] prefs.risk_level = "high" -> 9 < stock_data.beta

(* risk_ranges: low (-inf, 1.1], medium [0.7, 1.4], high [0.9, inf) *)
RiskCheck(stock_data, prefs) ==
    CASE prefs.risk_level = "low" -> stock_data.beta <= 11
      [] prefs.risk_level = "medium" -> 7 <= stock_data.beta /\ stock_data.beta <= 14
      [] prefs.risk_level = "high" -> 9 <= stock_data.beta

(* A variant of the return check that asks for the whole target *)
ReturnCheck_full(stock_data, prefs) ==
    LET historical_return == IF IsNaN(stock_data.historical_return) THEN 0
                             ELSE stock_data.historical_return
    IN  ~(historical_return < prefs.desired_return)

ReturnCheck(stock_data, prefs) ==
    LET historical_return == IF IsNaN(stock_data.historical_return) THEN 0
                             ELSE stock_data.historical_return
    IN  ~(4 * historical_return < prefs.desired_return)

(* A variant of the dividend check with one floor for both priorities *)
DividendCheck_flat(stock_data, prefs) ==
    /\ ~(prefs.dividend_priority = "2" /\ stock_data.dividend_yield < 3)
    /\ ~(prefs.dividend_priority = "1" /\ stock_data.dividend_yield < 3)

DividendCheck(stock_data, prefs) ==
    /\ ~(prefs.dividend_priority = "2" /\ stock_data.dividend_yield < 15)
    /\ ~(prefs.dividend_priority = "1" /\ stock_data.dividend_yield < 3)

matches_investment_criteria(stock_data, prefs) ==
    /\ TypeCheck(stock_data, prefs)
    /\ SectorCheck(stock_data, prefs)
    /\ stock_data.beta # NoneBeta
    /\ RiskCheck(stock_data, prefs)
    /\ ReturnCheck(stock_data, prefs)
    /\ DividendCheck(stock_data, prefs)

(* lines 556-616: the check at which matches_investment_criteria returns    *)
(* False ("raise" when line 586 raises), or "pass"                         *)
FirstFailure(stock_data, prefs) ==
    IF ~TypeCheck(stock_data, prefs) THEN "type"
    ELSE IF ~SectorCheck(stock_data, prefs) THEN "sector"
    ELSE IF stock_data.beta = NoneBeta THEN "raise"
    ELSE IF ~RiskCheck(stock_data, prefs) THEN "risk"
    ELSE IF ~ReturnCheck(stock_data, prefs) THEN "return"
    ELSE IF ~DividendCheck(stock_data, prefs) THEN "dividend"
    ELSE "pass"

-----------------------------------------------------------------------------
(* Scoring engine.  Each sub-score is a numerator over its own denominator: *)
(* risk and dividend in twentieths, return over ReturnDen, ethical over     *)
(* EthicalDen; the final score is ScoreNum / ScoreDen.                      *)

RiskScore(stock_data, prefs) ==
    CASE prefs.risk_level = "high" -> Min(stock_data.beta, 20)
      [] prefs.risk_level = "medium" -> 20 - 2 * Abs(stock_data.beta - 10)
      [] OTHER -> Max(0, 20 - stock_data.beta)

ReturnDen(prefs) == IF prefs.desired_return > 0 THEN 2 * prefs.desired_return ELSE 2

(* line 696 divides by target_return: ZeroDivisionError when it is 0 *)
score_raises(stock_data, prefs) ==
    /\ ~IsNaN(stock_data.historical_return)
    /\ stock_data.historical_return < prefs.desired_return
    /\ prefs.desired_return = 0

ReturnScore(stock_data, prefs) ==
    LET hist_return == stock_data.historical_return
        target_return == prefs.desired_return
    IN  IF IsNaN(hist_return) THEN ReturnDen(prefs) \div 2
        ELSE IF hist_return >= target_return THEN ReturnDen(prefs)
        ELSE Max(target_return, 2 * hist_return)

(* A variant of the sector score that compares the names as they are spelt *)
SectorScore_raw(stock_data, prefs) ==
    IF Lower(Get(stock_data, "sector", "")) \in {Lower(x) : x \in Range(prefs.sectors)}
    THEN 1 ELSE 0

SectorScore(stock_data, prefs) ==
    IF SectorCheck(stock_data, prefs) THEN 1 ELSE 0

DividendScore(stock_data, prefs) ==
    CASE prefs.dividend_priority = "2" -> Min(stock_data.dividend_yield, 20)
      [] prefs.dividend_priority = "1" -> Min(2 * stock_data.dividend_yield, 20)
      [] OTHER -> 20

EsgField(consideration) ==
    CASE consideration = "esg" -> "totalEsg"
      [] consideration = "green" -> "environmentScore"
      [] consideration = "social" -> "socialScore"
      [] consideration = "governance" -> "governanceScore"
      [] OTHER -> ""

Recognised(prefs) ==
    {i \in DOMAIN prefs.ethical_considerations :
        EsgField(prefs.ethical_considerations[i]) # ""}

EthicalDen(prefs) ==
    IF Recognised(prefs) # {} THEN 100 * Cardinality(Recognised(prefs)) ELSE 1

EthicalScore(stock_data, prefs) ==
    IF Len(prefs.ethical_considerations) = 0 THEN 1
    ELSE IF Recognised(prefs) = {} THEN 0
    ELSE Sum([i \in Recognised(prefs) |->
                Get(stock_data.esg_data, EsgField(prefs.ethical_considerations[i]), 0)],
             Recognised(prefs))

weight_risk == 25
weight_return == 30
weight_sector == 20
weight_dividend == 15
weight_ethical == 5
weight_budget == 5

ScoreUnit(prefs) == 20 * ReturnDen(prefs) * EthicalDen(prefs)

ScoreDen(prefs) == 100 * ScoreUnit(prefs)

calculate_overall_score(stock_data, prefs) ==
    LET L == ScoreUnit(prefs)
    IN  weight_risk * RiskScore(stock_data, prefs) * (L \div 20)
        + weight_return * ReturnScore(stock_data, prefs) * (L \div ReturnDen(prefs))
        + weight_sector * SectorScore(stock_data, prefs) * L
        + weight_dividend * DividendScore(stock_data, prefs) * (L \div 20)
        + weight_ethical * EthicalScore(stock_data, prefs) * (L \div EthicalDen(prefs))
        + weight_budget * L

-----------------------------------------------------------------------------
(* Metrics cache.  A cache file is a sequence of cells; json.dump emits a  *)
(* complete entry as four pieces: the opening brace, the 'data' member,     *)
(* the 'cache_timestamp' member and the closing brace.                      *)

NoFile == [exists |-> FALSE, cells |-> <<>>]

BraceOpen == [tok |-> "{", data |-> None, ts |-> 0]
BraceClose == [tok |-> "}", data |-> None, ts |-> 0]
DataCell(data) == [tok |-> "data", data |-> data, ts |-> 0]
TsCell(ts) == [tok |-> "cache_timestamp", data |-> None, ts |-> ts]

get_cache_path(symbol) == Lower(symbol)

json_dump(cache_data) ==
    <<BraceOpen, DataCell(cache_data.data), TsCell(cache_data.cache_timestamp),
      BraceClose>>

(* json.load: the text parses iff it is one object, members between braces *)
json_valid(cells) ==
    /\ Len(cells) >= 2
    /\ cells[1].tok = "{"
    /\ cells[Len(cells)].tok = "}"
    /\ \A i \in 2..(Len(cells) - 1) : cells[i].tok \in {"data", "cache_timestamp"}

HasKey(cells, key) == \E i \in DOMAIN cells : cells[i].tok = key

(* a repeated member: the last one wins *)
Member(cells, key) ==
    cells[CHOOSE i \in DOMAIN cells :
            /\ cells[i].tok = key
            /\ \A j \in DOMAIN cells : cells[j].tok = key => j <= i]

(* Variants of get_cached_data: one that serves an entry aged exactly 24   *)
(* hours, one that hands a read error to its caller.                       *)
get_cached_data_inclusive(file, now, readable) ==
    IF ~file.exists THEN None
    ELSE IF ~readable THEN None
    ELSE IF ~json_valid(file.cells) THEN None
    ELSE IF ~HasKey(file.cells, "cache_timestamp") THEN None
    ELSE IF now - Member(file.cells, "cache_timestamp").ts <= TTL
         THEN IF HasKey(file.cells, "data") THEN Member(file.cells, "data").data
              ELSE None
    ELSE None

ReadError == [error |-> TRUE]

get_cached_data_raising(file, now, readable) ==
    IF ~file.exists THEN None
    ELSE IF ~readable THEN ReadError
    ELSE IF ~json_valid(file.cells) THEN ReadError
    ELSE IF ~HasKey(file.cells, "cache_timestamp") THEN ReadError
    ELSE IF now - Member(file.cells, "cache_timestamp").ts < TTL
         THEN IF HasKey(file.cells, "data") THEN Member(file.cells, "data").data
              ELSE ReadError
    ELSE None

get_cached_data(file, now, readable) ==
    IF ~file.exists THEN None
    ELSE IF ~readable THEN None
    ELSE IF ~json_valid(file.cells) THEN None
    ELSE IF ~HasKey(file.cells, "cache_timestamp") THEN None
    ELSE IF now - Member(file.cells, "cache_timestamp").ts < TTL
         THEN IF HasKey(file.cells, "data") THEN Member(file.cells, "data").data
              ELSE None
    ELSE None

(* open(cache_path, 'w'): creates the file or truncates it *)
OpenForWrite(file) == [exists |-> TRUE, cells |-> <<>>]

(* a write of one piece at the writer's own file offset *)
WriteAt(file, off, piece) ==
    [file EXCEPT !.cells =
        IF off + 1 <= Len(file.cells) THEN [file.cells EXCEPT ![off + 1] = piece]
        ELSE Append(file.cells, piece)]

(* How a save can fail: not at all, at open() (the file is untouched), or  *)
(* after open() truncated the file and before any piece reached the disk.  *)
WriteFaults == {"none", "open", "flush"}

(* A variant of save_to_cache that writes nothing *)
save_to_cache_skipped(file, data, now, fault) == file

(* save_to_cache run without interleaving; every exception is swallowed *)
save_to_cache(file, data, now, fault) ==
    LET cache_data == [data |-> data, cache_timestamp |-> now]
        pieces == json_dump(cache_data)
    IN  CASE fault = "open" -> file
          [] fault = "flush" -> OpenForWrite(file)
          [] OTHER -> WriteAt(WriteAt(WriteAt(WriteAt(OpenForWrite(file),
                         0, pieces[1]), 1, pieces[2]), 2, pieces[3]), 3, pieces[4])

-----------------------------------------------------------------------------
(* Metrics resolver *)

(* A variant of fetch_stock_details that asks the provider whatever the    *)
(* cache holds.                                                            *)
fetch_stock_details_uncached(symbol, file, now, readable, response, fault) ==
    LET cached_data == get_cached_data(file, now, readable)
        stock_data == BuildStockData(symbol, response)
    IN  IF ~response.ok
        THEN [ret |-> None, file |-> file, called |-> TRUE, wrote |-> FALSE,
              cached |-> cached_data]
        ELSE [ret |-> stock_data,
              file |-> save_to_cache(file, stock_data, now, fault),
              called |-> TRUE, wrote |-> TRUE, cached |-> cached_data]

(* A variant of fetch_stock_details that removes an entry it cannot use *)
fetch_stock_details_evict(symbol, file, now, readable, response, fault) ==
    LET cached_data == get_cached_data(file, now, readable)
        stock_data == BuildStockData(symbol, response)
    IN  IF cached_data # None
        THEN [ret |-> cached_data, file |-> file, called |-> FALSE, wrote |-> FALSE,
              cached |-> cached_data]
        ELSE IF ~response.ok
        THEN [ret |-> None, file |-> NoFile, called |-> TRUE, wrote |-> FALSE,
              cached |-> cached_data]
        ELSE [ret |-> stock_data,
              file |-> save_to_cache(file, stock_data, now, fault),
              called |-> TRUE, wrote |-> TRUE, cached |-> cached_data]

(* fetch_stock_details: what it returns, the file it leaves, whether it    *)
(* called the provider.                                                    *)
fetch_stock_details(symbol, file, now, readable, response, fault) ==
    LET cached_data == get_cached_data(file, now, readable)
        stock_data == BuildStockData(symbol, response)
    IN  IF cached_data # None
        THEN [ret |-> cached_data, file |-> file, called |-> FALSE, wrote |-> FALSE,
              cached |-> cached_data]
        ELSE IF ~response.ok
        THEN [ret |-> None, file |-> file, called |-> TRUE, wrote |-> FALSE,
              cached |-> cached_data]
        ELSE [ret |-> stock_data,
              file |-> save_to_cache(file, stock_data, now, fault),
              called |-> TRUE, wrote |-> TRUE, cached |-> cached_data]

-----------------------------------------------------------------------------
(* Ranker / selector *)

Front(s) == SubSeq(s, 1, Len(s) - 1)
Last(s) == s[Len(s)]

(* list.sort(reverse=True, key=score) is stable: equal scores keep their order *)
InsertDesc(sorted, e) ==
    LET k == Cardinality({i \in DOMAIN sorted : sorted[i].score >= e.score})
    IN  SubSeq(sorted, 1, k) \o <<e>> \o SubSeq(sorted, k + 1, Len(sorted))

RECURSIVE SortDesc(_)
SortDesc(s) == IF s = <<>> THEN <<>> ELSE InsertDesc(SortDesc(Front(s)), Last(s))

(* A variant of the slice that keeps the tail of the list *)
Slice_tail(s, n) ==
    IF n >= 0 THEN SubSeq(s, Len(s) - Min(n, Len(s)) + 1, Len(s))
    ELSE SubSeq(s, 1, Max(Len(s) + n, 0))

(* s[:n], n of either sign *)
Slice(s, n) ==
    IF n >= 0 THEN SubSeq(s, 1, Min(n, Len(s)))
    ELSE SubSeq(s, 1, Max(Len(s) + n, 0))

(* lines 651-657: None, or the list of recommendations (held in a record, *)
(* so that it compares with None)                                         *)
Select(qualified, n) ==
    IF qualified = <<>> THEN None
    ELSE LET top == Slice(SortDesc(qualified), n)
         IN  [stocks |-> [i \in DOMAIN top |-> top[i].stock]]

(* A variant of analyse that gives up the sweep on an unresolved symbol *)
analyse_strict(acc, stock_data, prefs) ==
    IF acc.raised THEN acc
    ELSE IF stock_data = None THEN [acc EXCEPT !.raised = TRUE]
    ELSE IF matches_raises(stock_data, prefs) THEN [acc EXCEPT !.raised = TRUE]
    ELSE IF ~matches_investment_criteria(stock_data, prefs) THEN acc
    ELSE IF score_raises(stock_data, prefs) THEN [acc EXCEPT !.raised = TRUE]
    ELSE [acc EXCEPT !.qualified =
            Append(@, [score |-> calculate_overall_score(stock_data, prefs),
                       stock |-> stock_data])]

(* A variant of analyse that scores a snapshot without filtering it *)
analyse_unfiltered(acc, stock_data, prefs) ==
    IF acc.raised THEN acc
    ELSE IF stock_data = None THEN acc
    ELSE IF matches_raises(stock_data, prefs) THEN [acc EXCEPT !.raised = TRUE]
    ELSE IF score_raises(stock_data, prefs) THEN [acc EXCEPT !.raised = TRUE]
    ELSE [acc EXCEPT !.qualified =
            Append(@, [score |-> calculate_overall_score(stock_data, prefs),
                       stock |-> stock_data])]

(* lines 641-647: one turn of the sweep on what fetch_stock_details returned *)
analyse(acc, stock_data, prefs) ==
    IF acc.raised THEN acc
    ELSE IF stock_data = None THEN acc
    ELSE IF matches_raises(stock_data, prefs) THEN [acc EXCEPT !.raised = TRUE]
    ELSE IF ~matches_investment_criteria(stock_data, prefs) THEN acc
    ELSE IF score_raises(stock_data, prefs) THEN [acc EXCEPT !.raised = TRUE]
    ELSE [acc EXCEPT !.qualified =
            Append(@, [score |-> calculate_overall_score(stock_data, prefs),
                       stock |-> stock_data])]

(* A variant of the universe that takes the ETF lists for every profile *)
RECURSIVE Candidates_etf(_, _)
Candidates_etf(sectors, investment_types) ==
    IF sectors = <<>> THEN {}
    ELSE Candidates_etf(Front(sectors), investment_types)
         \cup Range(get_sector_stocks(Last(sectors)))
         \cup Range(get_sector_etfs(Last(sectors)))

(* lines 626-634: the deduplicated candidate universe *)
RECURSIVE Candidates(_, _)
Candidates(sectors, investment_types) ==
    IF sectors = <<>> THEN {}
    ELSE Candidates(Front(sectors), investment_types)
         \cup Range(get_sector_stocks(Last(sectors)))
         \cup (IF "etf" \in Range(investment_types)
               THEN Range(get_sector_etfs(Last(sectors))) ELSE {})

(* list(set(...)): any order of the set *)
Orders(S) ==
    {o \in [1..Cardinality(S) -> S] : \A i, j \in DOMAIN o : o[i] = o[j] => i = j}

(* get_recommendations on a given enumeration order, each symbol resolving *)
(* to res[symbol]                                                          *)
RECURSIVE Sweep(_, _, _)
Sweep(order, res, prefs) ==
    IF order = <<>> THEN [raised |-> FALSE, qualified |-> <<>>]
    ELSE analyse(Sweep(Front(order), res, prefs), res[Last(order)], prefs)

get_recommendations(order, res, prefs, n) ==
    LET acc == Sweep(order, res, prefs)
    IN  IF acc.raised THEN None ELSE Select(acc.qualified, n)

-----------------------------------------------------------------------------
(* The inputs of the sequential model: profiles as the form submits them   *)
(* (duration and budget are read by no rule), and the provider's answers.  *)

Profile(risk_level, desired_return, sectors, dividend_priority, ethical, types) ==
    [risk_level |-> risk_level, desired_return |-> desired_return,
     sectors |-> sectors, dividend_priority |-> dividend_priority,
     ethical_considerations |-> ethical, investment_types |-> types]

Profiles ==
    {Profile("low", 5, <<"tech">>, "0", <<>>, <<"stocks">>),
     Profile("medium", 8, <<"tech">>, "1", <<"esg">>, <<>>)}

Responses ==
    {ProviderFail,
     Info("Technology", "EQUITY", 10, 50, 0, 6, Esg(50, 40, 30, 20)),
     Info("Consumer Cyclical", "EQUITY", 8, 5, 20, 3, Esg(0, 0, 0, 0))}

Symbols == Range(get_sector_stocks("tech"))
CacheKeys == {get_cache_path(s) : s \in Symbols}
Writers == {1, 2}

NoCall == [op |-> "none"]

InitCommon ==
    /\ clock = 0
    /\ cache = [k \in CacheKeys |-> NoFile]
    /\ pc = "idle"
    /\ user_preferences = None
    /\ num_recommendations = 5
    /\ candidate_symbols = <<>>
    /\ idx = 0
    /\ qualified_stocks = <<>>
    /\ result = None
    /\ resolved = <<>>
    /\ failed = {}
    /\ stored = [k \in CacheKeys |-> None]
    /\ last = NoCall
    /\ requests = 0
    /\ fetches = 0
    /\ wpc = [w \in Writers |-> "idle"]
    /\ wsym = [w \in Writers |-> ""]
    /\ wdata = [w \in Writers |-> None]
    /\ wts = [w \in Writers |-> 0]
    /\ woff = [w \in Writers |-> 0]
    /\ wold = [w \in Writers |-> None]
    /\ saves = <<>>
    /\ rres = NoCall
    /\ reads = 0

Init ==
    /\ InitCommon
    /\ scoring = [state |-> "none"]
    /\ web = [state |-> "none"]

-----------------------------------------------------------------------------
(* The sequential model: recommendation requests one after the other *)

(* lines 622-635 *)
StartRequest ==
    /\ pc \in {"idle", "done"}
    /\ requests < MaxRequests
    /\ \E prefs \in Profiles, n \in {5} :
         \E order \in Orders(Candidates(prefs.sectors, prefs.investment_types)) :
            /\ user_preferences' = prefs
            /\ num_recommendations' = n
            /\ candidate_symbols' = order
    /\ pc' = "loop"
    /\ idx' = 0
    /\ qualified_stocks' = <<>>
    /\ result' = None
    /\ resolved' = <<>>
    /\ failed' = {}
    /\ requests' = requests + 1
    /\ last' = NoCall
    /\ UNCHANGED <<clock, cache, stored, writerVars, readerVars, scoring, web, fetches>>

(* One call of fetch_stock_details(symbol) with the environment's choices: *)
(* whether the cache file can be read, the provider's answer, the fault of *)
(* the write.                                                              *)
Resolve(symbol, readable, response, fault) ==
    LET key == get_cache_path(symbol)
        f == fetch_stock_details(symbol, cache[key], clock, readable,
                                 response, fault)
    IN  /\ f.called \/ response = ProviderFail  \* the answer of a call not made
        /\ f.wrote \/ fault = "none"            \* the fault of a write not made
        /\ cache' = [cache EXCEPT ![key] = f.file]
        /\ stored' = [stored EXCEPT ![key] =
               IF f.wrote /\ fault = "none" THEN [data |-> f.ret, ts |-> clock]
               ELSE IF f.wrote /\ fault = "flush" THEN None
               ELSE @]
        /\ last' = [op |-> "fetch", symbol |-> symbol, now |-> clock,
                    pre |-> cache[key], readable |-> readable,
                    cached |-> f.cached, called |-> f.called, wrote |-> f.wrote,
                    response |-> IF f.called THEN response ELSE None,
                    fault |-> IF f.wrote THEN fault ELSE "",
                    ret |-> f.ret, post |-> f.file, stored |-> stored[key]]

(* lines 639-647: one turn of the loop *)
Analyse ==
    /\ pc = "loop"
    /\ idx < Len(candidate_symbols)
    /\ \E response \in Responses, fault \in {"none", "flush"} :
         LET symbol == candidate_symbols[idx + 1]
             acc == analyse([raised |-> FALSE, qualified |-> qualified_stocks],
                            last'.ret, user_preferences)
         IN  /\ Resolve(symbol, TRUE, response, fault)
             /\ resolved' = [s \in DOMAIN resolved \cup {symbol} |->
                                IF s = symbol THEN last'.ret ELSE resolved[s]]
             /\ failed' = IF last'.called /\ ~response.ok
                          THEN failed \cup {symbol} ELSE failed
             /\ qualified_stocks' = acc.qualified
             /\ idx' = idx + 1
             /\ pc' = IF acc.raised THEN "done" ELSE "loop"
             /\ result' = None
    /\ UNCHANGED <<clock, user_preferences, num_recommendations,
                   candidate_symbols, requests, writerVars, readerVars, scoring, web, fetches>>

(* lines 649-657 *)
Finish ==
    /\ pc = "loop"
    /\ idx = Len(candidate_symbols)
    /\ result' = Select(qualified_stocks, num_recommendations)
    /\ pc' = "done"
    /\ UNCHANGED <<clock, cache, user_preferences, num_recommendations,
                   candidate_symbols, idx, qualified_stocks, resolved, failed,
                   stored, last, requests, writerVars, readerVars, scoring, web, fetches>>

(* Time passes, outside a request's sweep and while a call that reads the *)
(* clock can still follow, to a later one of the instants about the start *)
(* and the end of the freshness window of an entry written at 0.          *)
Instants == (0..ExtraMinutes) \cup ((TTL - 1)..MaxClock)

Tick ==
    /\ pc # "loop"
    /\ fetches < MaxFetches
    /\ reads < MaxReads
    /\ \E t \in Instants :
         /\ t > clock
         /\ clock' = t
    /\ UNCHANGED <<cache, requestVars, stored, last, writerVars, readerVars, scoring, web,
                   fetches>>

Next == StartRequest \/ Analyse \/ Finish \/ Tick

Spec == Init /\ [][Next]_vars

-----------------------------------------------------------------------------
(* The resolver model: fetch_stock_details called symbol after symbol,     *)
(* with every fault of the environment.                                    *)

ResolveSymbols == {"AAPL", "MSFT"}

Fetch ==
    /\ fetches < MaxFetches
    /\ fetches' = fetches + 1
    /\ \E symbol \in ResolveSymbols, readable \in BOOLEAN,
          response \in Responses, fault \in WriteFaults :
         Resolve(symbol, readable, response, fault)
    /\ UNCHANGED <<clock, requestVars, writerVars, readerVars, scoring, web>>

(* A stored entry is damaged from outside: it loses its 'data' member,     *)
(* its 'cache_timestamp' member, or its closing brace (invalid JSON).      *)
DamageKinds == {"data", "cache_timestamp", "}"}

Damaged(file, kind) ==
    [file EXCEPT !.cells =
        LET keep == {i \in DOMAIN file.cells : file.cells[i].tok # kind}
            pos(n) == CHOOSE i \in keep : Cardinality({j \in keep : j <= i}) = n
        IN  [n \in 1..Cardinality(keep) |-> file.cells[pos(n)]]]

Damage ==
    /\ fetches < MaxFetches
    /\ \E key \in CacheKeys, kind \in DamageKinds :
         /\ cache[key].exists
         /\ json_valid(cache[key].cells)
         /\ HasKey(cache[key].cells, "data")
         /\ HasKey(cache[key].cells, "cache_timestamp")
         /\ cache' = [cache EXCEPT ![key] = Damaged(@, kind)]
         /\ stored' = [stored EXCEPT ![key] = None]
    /\ UNCHANGED <<clock, requestVars, last, writerVars, readerVars, scoring, web, fetches>>

NextResolve == Fetch \/ Tick \/ Damage

SpecResolve == Init /\ [][NextResolve]_vars

-----------------------------------------------------------------------------
(* The cache model: save_to_cache calls of two writers, step by step, and  *)
(* get_cached_data calls, on the file of one symbol.                       *)

CacheSymbol == "AAPL"

SaveData == {BuildStockData(CacheSymbol, r) : r \in {x \in Responses : x.ok}}

InProgress(key) == {w \in Writers : wpc[w] # "idle" /\ get_cache_path(wsym[w]) = key}

(* lines 41-47: the entry and its timestamp are built before the file is opened *)
BeginSave(w) ==
    /\ wpc[w] = "idle"
    /\ Len(saves) < MaxSaves
    /\ \E data \in SaveData :
         /\ wdata' = [wdata EXCEPT ![w] = data]
         /\ saves' = Append(saves, [data |-> data, ts |-> clock])
    /\ wsym' = [wsym EXCEPT ![w] = CacheSymbol]
    /\ wts' = [wts EXCEPT ![w] = clock]
    /\ wold' = [wold EXCEPT ![w] =
          [data |-> get_cached_data(cache[get_cache_path(CacheSymbol)], clock, TRUE),
           file |-> cache[get_cache_path(CacheSymbol)]]]
    /\ wpc' = [wpc EXCEPT ![w] = "open"]
    /\ UNCHANGED <<clock, cache, requestVars, stored, last, fetches, woff, readerVars,
                   scoring, web>>

(* line 49 *)
OpenFile(w) ==
    /\ wpc[w] = "open"
    /\ cache' = [cache EXCEPT ![get_cache_path(wsym[w])] = OpenForWrite(@)]
    /\ woff' = [woff EXCEPT ![w] = 0]
    /\ wpc' = [wpc EXCEPT ![w] = "dump"]
    /\ UNCHANGED <<clock, requestVars, stored, last, fetches, wsym, wdata, wts,
                   wold, saves, readerVars, scoring, web>>

(* line 50: the next piece goes to the file; after the last one it is closed *)
WritePiece(w) ==
    /\ wpc[w] = "dump"
    /\ LET pieces == json_dump([data |-> wdata[w], cache_timestamp |-> wts[w]])
       IN  /\ cache' = [cache EXCEPT ![get_cache_path(wsym[w])] =
                           WriteAt(@, woff[w], pieces[woff[w] + 1])]
           /\ woff' = [woff EXCEPT ![w] = @ + 1]
           /\ wpc' = [wpc EXCEPT ![w] =
                         IF woff[w] + 1 = Len(pieces) THEN "idle" ELSE "dump"]
    /\ UNCHANGED <<clock, requestVars, stored, last, fetches, wsym, wdata, wts,
                   wold, saves, readerVars, scoring, web>>

(* lines 21-37, on the file as it is at this moment *)
Read ==
    /\ reads < MaxReads
    /\ reads' = reads + 1
    /\ \E readable \in BOOLEAN :
         LET key == get_cache_path(CacheSymbol)
         IN  rres' = [op |-> "read", symbol |-> CacheSymbol, now |-> clock,
                      file |-> cache[key], readable |-> readable,
                      ret |-> get_cached_data(cache[key], clock, readable),
                      saves |-> saves,
                      writers |-> {[old |-> wold[w].data, oldfile |-> wold[w].file,
                                    new |-> wdata[w]] : w \in InProgress(key)}]
    /\ UNCHANGED <<clock, cache, requestVars, stored, last, fetches, writerVars,
                   scoring, web>>

NextCache ==
    \/ \E w \in Writers : BeginSave(w)
    \/ \E w \in Writers : OpenFile(w)
    \/ \E w \in Writers : WritePiece(w)
    \/ Read
    \/ Tick

SpecCache == Init /\ [][NextCache]_vars

-----------------------------------------------------------------------------
(* The scoring model: the filter and the score applied to one snapshot and *)
(* one profile, drawn from bounded sets.                                   *)

BetaValues == {-20, -1, 0, 6, 7, 8, 9, 10, 11, 12, 13, 14, 15, 30}
ReturnValues == {NaN, -5, 0, 1, 2, 5, 10}
DividendValues == {0, 2, 3, 10, 15, 30}
EsgValues == {Esg(0, 0, 0, 0), Esg(50, 40, 30, 20), Esg(100, 100, 100, 100)}

NumericStocks ==
    {BuildStockData("AAPL", Info("Technology", "EQUITY", b, 5, d, r, e)) :
        b \in BetaValues, d \in DividendValues, r \in ReturnValues, e \in EsgValues}

NumericProfiles ==
    {Profile(risk, t, <<"tech">>, p, eth, <<"stocks">>) :
        risk \in {"low", "medium", "high"}, t \in {0, 5, 8, 100},
        p \in {"0", "1", "2"}, eth \in {<<>>, <<"esg">>, <<"green", "social">>}}

KindStocks ==
    {BuildStockData(sym, Info(sec, q, b, cap, d, 6, Esg(50, 40, 30, 20))) :
        sym \in {"AAPL", "JNJ"}, sec \in {"Technology", "Healthcare"},
        q \in {"EQUITY", "ETF", "MUTUALFUND"}, b \in {10, 13, NoneBeta},
        cap \in {5, 50}, d \in {0, 10}}

KindProfiles ==
    {Profile("low", 5, secs, "0", <<>>, types) :
        secs \in {<<"tech">>, <<"healthcare">>, <<"Technology", "finance">>},
        types \in {<<>>, <<"stocks">>, <<"etf">>, <<"mutual_funds">>,
                   <<"bonds", "etf">>}}

ScoreInputs == (NumericStocks \X NumericProfiles) \cup (KindStocks \X KindProfiles)

InitScore ==
    /\ InitCommon
    /\ scoring \in {[state |-> "input", stock |-> x[1], prefs |-> x[2]] :
                      x \in ScoreInputs}
    /\ web = [state |-> "none"]

(* lines 645-646 on one resolved snapshot *)
Score ==
    /\ scoring.state = "input"
    /\ LET acc == analyse([raised |-> FALSE, qualified |-> <<>>],
                          scoring.stock, scoring.prefs)
       IN  scoring' = [state |-> "scored", stock |-> scoring.stock,
                       prefs |-> scoring.prefs, raised |-> acc.raised,
                       rule |-> FirstFailure(scoring.stock, scoring.prefs),
                       passed |-> acc.qualified # <<>>,
                       score |-> IF acc.qualified # <<>> THEN acc.qualified[1].score
                                 ELSE 0,
                       den |-> ScoreDen(scoring.prefs)]
    /\ UNCHANGED <<clock, cache, requestVars, stored, last, fetches, writerVars,
                   readerVars, web>>

NextScore == Score

SpecScore == InitScore /\ [][NextScore]_vars

-----------------------------------------------------------------------------
(* Properties.  An entry file is well formed when it is the dump of an     *)
(* entry: both members between the braces.                                 *)

IsEntry(file) ==
    /\ file.exists
    /\ Len(file.cells) = 4
    /\ file.cells = json_dump([data |-> file.cells[2].data,
                               cache_timestamp |-> file.cells[3].ts])

EntryData(file) == file.cells[2].data
EntryTs(file) == file.cells[3].ts
EntryOf(data, ts) ==
    [exists |-> TRUE, cells |-> json_dump([data |-> data, cache_timestamp |-> ts])]

(* the file holds a well-formed entry younger than 24 hours *)
Fresh(file, now) == IsEntry(file) /\ now - EntryTs(file) < TTL

(* the snapshot the last call built from the provider's answer *)
Snapshot == BuildStockData(last.symbol, last.response)

(* C1: get_cached_data returns the stored metrics if and only if the entry *)
(* file exists, can be read, is well formed and is strictly younger than   *)
(* 24 hours; in every other case, an age of exactly 24 hours or more       *)
(* included, it returns None.                                              *)
C1_FreshWindow ==
    last.op = "fetch" =>
        /\ (last.cached # None) <=> (last.readable /\ Fresh(last.pre, last.now))
        /\ (last.cached # None) => last.cached = EntryData(last.pre)
        /\ (IsEntry(last.pre) /\ last.now - EntryTs(last.pre) >= TTL)
              => last.cached = None

(* an entry written at t0 is served at t0 + 23h59m *)
C1_Witness ==
    /\ last.op = "fetch"
    /\ IsEntry(last.pre)
    /\ last.now - EntryTs(last.pre) = TTL - 1
    /\ last.cached = EntryData(last.pre)

(* C2: while a save is in progress on a symbol that held a fresh entry     *)
(* old, a read of that symbol returns old or new, never None.              *)
C2_AtomicWrite ==
    (rres.op = "read" /\ rres.readable) =>
        \A x \in rres.writers :
            (x.old # None /\ get_cached_data(x.oldfile, rres.now, TRUE) = x.old)
                => rres.ret \in {x.old, x.new}

(* C3: a read that returns metrics returns the metrics of one save call,   *)
(* stored under the timestamp of that same call.                           *)
C3_NoTornRead ==
    (rres.op = "read" /\ rres.ret # None) =>
        \E i \in DOMAIN rres.saves :
            /\ rres.saves[i].data = rres.ret
            /\ rres.saves[i].ts = Member(rres.file.cells, "cache_timestamp").ts

(* C4: when the cache holds a fresh readable entry, fetch_stock_details    *)
(* returns exactly that snapshot and does not call the provider.           *)
C4_HitPath ==
    (last.op = "fetch" /\ last.readable /\ Fresh(last.pre, last.now)) =>
        /\ last.ret = EntryData(last.pre)
        /\ ~last.called

(* a fetch served from an entry stored by an earlier fetch *)
C4_Witness ==
    /\ last.op = "fetch"
    /\ last.readable
    /\ Fresh(last.pre, last.now)
    /\ last.ret = EntryData(last.pre)
    /\ ~last.called
    /\ fetches = 2

(* C5, as stated: on a miss with a successful provider fetch the snapshot  *)
(* is returned and stored with timestamp now in the place of any prior     *)
(* entry; a following fetch within 24 hours, no other write in between,    *)
(* returns the same snapshot without a provider call.                      *)
C5_MissPath ==
    /\ (last.op = "fetch" /\ last.called /\ last.response.ok) =>
          /\ last.cached = None
          /\ last.ret = Snapshot
          /\ last.post = EntryOf(Snapshot, last.now)
    /\ (last.op = "fetch" /\ last.stored # None
           /\ last.now - last.stored.ts < TTL) =>
          /\ last.ret = last.stored.data
          /\ ~last.called

(* C5, amended: the snapshot is stored when the cache write succeeds, and  *)
(* the following fetch is served from it when it can read the entry.       *)
C5_MissPathWritten ==
    /\ (last.op = "fetch" /\ last.called /\ last.response.ok) =>
          /\ last.cached = None
          /\ last.ret = Snapshot
          /\ last.fault = "none" => last.post = EntryOf(Snapshot, last.now)
    /\ (last.op = "fetch" /\ last.stored # None /\ last.readable
           /\ last.now - last.stored.ts < TTL) =>
          /\ last.ret = last.stored.data
          /\ ~last.called

(* a fetch served from the snapshot an earlier miss stored *)
C5_Witness ==
    /\ last.op = "fetch"
    /\ last.stored # None
    /\ last.pre = EntryOf(last.stored.data, last.stored.ts)
    /\ last.now > last.stored.ts
    /\ last.ret = last.stored.data
    /\ ~last.called

(* the enumeration without one symbol *)
Remove(order, symbol) == SelectSeq(order, LAMBDA x : x # symbol)

(* C6: a provider failure makes fetch_stock_details return None for that   *)
(* symbol only; every candidate is still resolved, and the request returns *)
(* the ordered result it would return were the failed symbol not a         *)
(* candidate.                                                              *)
C6_FailureIsolation ==
    pc = "done" =>
        /\ DOMAIN resolved = Range(candidate_symbols)
        /\ \A s \in DOMAIN resolved : (resolved[s] = None) <=> (s \in failed)
        /\ \A s \in failed :
              result = get_recommendations(Remove(candidate_symbols, s), resolved,
                                           user_preferences, num_recommendations)

(* a request that lost one symbol to the provider and recommended the other two *)
C6_Witness ==
    /\ pc = "done"
    /\ Cardinality(failed) = 1
    /\ result # None
    /\ Len(result.stocks) = 2

(* C7, as stated: a corrupt or unreadable entry is a miss, never an error; *)
(* fetch_stock_details asks the provider, and a successful fetch leaves a  *)
(* valid entry in the place of the corrupt one.                            *)
C7_CorruptIsMiss ==
    (last.op = "fetch" /\ last.pre.exists
        /\ (~last.readable \/ ~IsEntry(last.pre))) =>
        /\ last.cached = None
        /\ last.called
        /\ IF last.response.ok
           THEN /\ last.ret = Snapshot
                /\ last.post = EntryOf(Snapshot, last.now)
           ELSE last.ret = None

(* C7, amended: the valid entry is there when the cache write succeeds *)
C7_CorruptIsMissWritten ==
    (last.op = "fetch" /\ last.pre.exists
        /\ (~last.readable \/ ~IsEntry(last.pre))) =>
        /\ last.cached = None
        /\ last.called
        /\ IF last.response.ok
           THEN /\ last.ret = Snapshot
                /\ last.fault = "none" => last.post = EntryOf(Snapshot, last.now)
           ELSE last.ret = None

(* a damaged entry read, the provider asked, a valid entry written over it *)
C7_Witness ==
    /\ last.op = "fetch"
    /\ last.readable
    /\ last.pre.exists
    /\ last.pre.cells # <<>>
    /\ ~IsEntry(last.pre)
    /\ last.called
    /\ last.response.ok
    /\ last.post = EntryOf(Snapshot, last.now)

(* C8: when the cache write fails after a successful provider fetch, the   *)
(* fresh snapshot is returned, it is filtered and scored as it would be    *)
(* had the write succeeded, and the cache file is as it was before.        *)
C8_WriteFailure ==
    (last.op = "fetch" /\ last.wrote /\ last.fault # "none") =>
        LET written == fetch_stock_details(last.symbol, last.pre, last.now,
                                           last.readable, last.response, "none")
            start == [raised |-> FALSE, qualified |-> <<>>]
        IN  /\ last.ret = Snapshot
            /\ \A prefs \in Profiles :
                  analyse(start, last.ret, prefs) = analyse(start, written.ret, prefs)
            /\ last.post = last.pre

(* C9: the weights sum to 1, the risk sub-score of a candidate that passed *)
(* the filter lies in [0,1], and so does its score.                        *)
C9_ScoreRange ==
    /\ weight_risk + weight_return + weight_sector + weight_dividend
          + weight_ethical + weight_budget = 100
    /\ (scoring.state = "scored" /\ scoring.passed) =>
          /\ 0 <= RiskScore(scoring.stock, scoring.prefs)
          /\ RiskScore(scoring.stock, scoring.prefs) <= 20
          /\ 0 <= scoring.score
          /\ scoring.score <= scoring.den

(* the symbols of the model in lexicographic order *)
Lexicographic ==
    <<"AAPL", "GOOGL", "IYH", "IYW", "JNJ", "MSFT", "PFE", "UNH", "VGT", "VHT",
      "XLK", "XLV">>

SymbolBefore(a, b) ==
    \E i, j \in DOMAIN Lexicographic :
        Lexicographic[i] = a /\ Lexicographic[j] = b /\ i < j

(* C10: two recommendations of equal score come in lexicographic order of  *)
(* their symbols, whatever the enumeration order was.                      *)
C10_TieBreak ==
    (pc = "done" /\ result # None) =>
        \A i, j \in DOMAIN result.stocks :
            (i < j /\ calculate_overall_score(result.stocks[i], user_preferences)
                        = calculate_overall_score(result.stocks[j], user_preferences))
                => SymbolBefore(result.stocks[i].symbol, result.stocks[j].symbol)

(* the tags the instrument-type rule derives from a snapshot *)
BaseTag(quoteType) ==
    CASE Lower(quoteType) \in {"equity", "stock", ""} -> {"stocks"}
      [] Lower(quoteType) = "etf" -> {"etf"}
      [] Lower(quoteType) = "mutualfund" -> {"mutual_funds"}
      [] Lower(quoteType) = "bond" -> {"bonds"}
      [] OTHER -> {}

DerivedTags(stock_data) ==
    BaseTag(stock_data.quoteType)
        \cup (IF stock_data.marketCap > 10 THEN {"etf", "mutual_funds"} ELSE {})
        \cup (IF stock_data.dividend_yield > 0 THEN {"mutual_funds"} ELSE {})

ProfileTypes(prefs) ==
    IF Range(prefs.investment_types) = {} THEN {"stocks"}
    ELSE Range(prefs.investment_types)

(* C13: a snapshot passes the instrument-type rule iff its derived tags    *)
(* (base tag of the quote type, etf and mutual_funds above $10B of market  *)
(* cap, mutual_funds for a dividend yield above 0) meet the profile's      *)
(* investment types.                                                       *)
C13_TypeRule ==
    scoring.state = "scored" =>
        ((scoring.rule # "type")
            <=> (DerivedTags(scoring.stock) \cap ProfileTypes(scoring.prefs) # {}))

InBand(beta, risk_level) ==
    CASE risk_level = "low" -> beta <= 11
      [] risk_level = "medium" -> 7 <= beta /\ beta <= 14
      [] risk_level = "high" -> 9 <= beta

(* C14: a snapshot whose beta lies outside the closed band of the risk     *)
(* level is rejected whatever its other fields; a beta inside the band,    *)
(* the endpoints 1.1, 0.7, 1.4 and 0.9 included, passes the risk rule.     *)
C14_RiskBand ==
    (scoring.state = "scored" /\ scoring.stock.beta # NoneBeta) =>
        IF InBand(scoring.stock.beta, scoring.prefs.risk_level)
        THEN scoring.rule # "risk"
        ELSE ~scoring.passed /\ scoring.rule # "pass"

(* beta 1.1 passes every rule under low *)
C14_Witness ==
    /\ scoring.state = "scored"
    /\ scoring.prefs.risk_level = "low"
    /\ scoring.stock.beta = 11
    /\ scoring.rule = "pass"

DividendFloor(priority) ==
    CASE priority = "2" -> 15
      [] priority = "1" -> 3
      [] OTHER -> 0

(* C15: a snapshot passes the filter only with a dividend yield at or      *)
(* above the floor of the priority (high 1.5, some 0.3, none no floor),    *)
(* and one that reaches the dividend rule fails it exactly below the       *)
(* floor; yield 1.0 is excluded under high.                                *)
C15_DividendFloor ==
    scoring.state = "scored" =>
        LET floor == DividendFloor(scoring.prefs.dividend_priority)
            yield == scoring.stock.dividend_yield
        IN  /\ scoring.passed => yield >= floor
            /\ scoring.rule \in {"dividend", "pass"} =>
                  ((scoring.rule = "pass") <=> (yield >= floor))
            /\ scoring.prefs.dividend_priority = "0" => scoring.rule # "dividend"
            /\ (scoring.prefs.dividend_priority = "2" /\ yield = 10)
                  => ~scoring.passed

(* yield 1.0 under high: every other rule passed, the dividend rule rejects *)
C15_Witness ==
    /\ scoring.state = "scored"
    /\ scoring.prefs.dividend_priority = "2"
    /\ scoring.stock.dividend_yield = 10
    /\ scoring.rule = "dividend"

(* C16: a snapshot that reaches the return rule passes it iff its          *)
(* historical return, an undefined one counted as 0, is at least a quarter *)
(* of the desired return; an undefined return passes only for a desired    *)
(* return of 0.                                                            *)
C16_ReturnFloor ==
    (scoring.state = "scored" /\ scoring.rule \in {"return", "dividend", "pass"}) =>
        LET historical_return == IF IsNaN(scoring.stock.historical_return) THEN 0
                                 ELSE scoring.stock.historical_return
        IN  /\ (scoring.rule # "return")
                  <=> (4 * historical_return >= scoring.prefs.desired_return)
            /\ IsNaN(scoring.stock.historical_return) =>
                  ((scoring.rule # "return") <=> (scoring.prefs.desired_return = 0))

(* a return of exactly a quarter of the target passes the return rule *)
C16_Witness ==
    /\ scoring.state = "scored"
    /\ scoring.prefs.desired_return = 8
    /\ scoring.stock.historical_return = 2
    /\ scoring.rule \in {"dividend", "pass"}

-----------------------------------------------------------------------------
(* The request model: the form of app/forms.py submitted to index(), the   *)
(* recommendations() route, and get_recommendations called as a function   *)
(* on what fetch_stock_details returns for each symbol.                    *)

Form(risk_level, desired_return, duration, sectors, budget, dividend_priority, ethical, types) ==
    [risk_level |-> risk_level, desired_return |-> desired_return,
     duration |-> duration, sectors |-> sectors, budget |-> budget,
     dividend_priority |-> dividend_priority,
     ethical_considerations |-> ethical, investment_types |-> types]

risk_choices == {"low", "medium", "high"}
sector_choices == {"tech", "healthcare", "finance", "energy", "consumer",
                   "real_estate", "utilities"}
dividend_choices == {"0", "1", "2"}
ethical_choices == {"esg", "green", "social", "governance"}
type_choices == {"stocks", "etf", "mutual_funds", "bonds"}

(* DataRequired on a number field: the coerced value must be truthy *)
DataRequired(x) == x # 0

NumberRange(x, lo, hi) == lo <= x /\ x <= hi

(* InvestmentForm.validate: the validators of each field, and the choices  *)
(* of the select fields; sectors carries no validator                      *)
validate(form) ==
    /\ form.risk_level \in risk_choices
    /\ DataRequired(form.desired_return)
    /\ NumberRange(form.desired_return, 0, 100)
    /\ DataRequired(form.duration)
    /\ NumberRange(form.duration, 1, 30)
    /\ Range(form.sectors) \subseteq sector_choices
    /\ DataRequired(form.budget)
    /\ form.budget >= 1000
    /\ form.dividend_priority \in dividend_choices
    /\ Range(form.ethical_considerations) \subseteq ethical_choices
    /\ Range(form.investment_types) \subseteq type_choices

(* routes.py lines 50-63: session['investment_params'] *)
investment_params(form) ==
    Profile(form.risk_level, form.desired_return, form.sectors,
            form.dividend_priority, form.ethical_considerations,
            IF form.investment_types = <<>> THEN <<"stocks">>
            ELSE form.investment_types)

(* the symbols handed to fetch_stock_details: all of them, or those up to  *)
(* the one whose analysis raised                                           *)
Fetched(order, res, prefs) ==
    {order[i] : i \in {k \in DOMAIN order :
                          ~Sweep(SubSeq(order, 1, k - 1), res, prefs).raised}}

AllSymbols ==
    UNION {Range(sector_mapping[k]) : k \in DOMAIN sector_mapping}
        \cup UNION {Range(etf_mapping[k]) : k \in DOMAIN etf_mapping}

RankResponses ==
    Responses \cup {Info("Technology", "EQUITY", 13, 50, 0, 6, Esg(50, 40, 30, 20))}

(* what fetch_stock_details returns for a symbol on a provider answer *)
Resolution(symbol, response) ==
    IF response.ok THEN BuildStockData(symbol, response) ELSE None

(* every symbol unresolved but the tech equities, which resolve in any way *)
Resolutions ==
    {[s \in AllSymbols |-> IF s \in Symbols THEN Resolution(s, f[s]) ELSE None] :
        f \in [Symbols -> RankResponses]}

Unresolved == [s \in AllSymbols |-> None]

(* num_recommendations, the default among them *)
NValues == {-1, 0, 1, 2, 5}

(* direct calls that rank the tech equities *)
RankCalls ==
    {[state |-> "params", via |-> "call", prefs |-> p, n |-> n, res |-> r] :
        p \in Profiles, n \in NValues, r \in Resolutions}

(* sector lists and type lists whose universe stays small enough to        *)
(* enumerate in every order                                                *)
UniverseProfiles ==
    {Profile("low", 5, se, "0", <<>>, ty) :
        se \in {<<>>, <<"tech">>, <<"healthcare", "tech">>, <<"crypto">>,
                <<"tech", "crypto">>, <<"tech", "tech">>},
        ty \in {<<"stocks">>, <<"stocks", "mutual_funds">>, <<"bonds">>}}
    \cup {Profile(rl, 5, se, dp, <<>>, ty) :
        rl \in {"low", "high"}, dp \in {"0", "2"},
        se \in {<<>>, <<"tech">>, <<"crypto">>, <<"crypto", "healthcare">>,
                <<"tech", "tech">>},
        ty \in {<<"etf">>, <<"stocks", "etf">>, <<"etf", "bonds">>}}

(* direct calls on every universe, no symbol resolving *)
UniverseCalls ==
    {[state |-> "params", via |-> "call", prefs |-> p, n |-> 5, res |-> Unresolved] :
        p \in UniverseProfiles}

Forms ==
    {Form(rl, dr, du, se, bu, "0", <<>>, ty) :
        rl \in {"low", "extreme"}, dr \in {-1, 0, 5, 100, 101}, du \in {0, 5},
        se \in {<<>>, <<"tech">>, <<"crypto">>}, bu \in {999, 1000},
        ty \in {<<>>, <<"etf">>}}

(* what the tech equities resolve to behind a submitted form *)
FormResolutions ==
    {Unresolved,
     [s \in AllSymbols |->
        IF s \in Symbols
        THEN Resolution(s, Info("Technology", "EQUITY", 10, 50, 0, 6, Esg(50, 40, 30, 20)))
        ELSE None]}

Submissions ==
    {[state |-> "form", via |-> "form", form |-> f, res |-> r] :
        f \in Forms, r \in FormResolutions}

(* answers among which one has no beta: 'beta' is present and null *)
RaiseResponses ==
    {ProviderFail,
     Info("Technology", "EQUITY", 10, 50, 0, 6, Esg(50, 40, 30, 20)),
     Info("Technology", "EQUITY", NoneBeta, 50, 0, 6, Esg(50, 40, 30, 20))}

(* direct calls in which the analysis of a candidate can raise *)
RaiseCalls ==
    {[state |-> "params", via |-> "call", prefs |-> p, n |-> 5,
      res |-> [s \in AllSymbols |->
                  IF s \in Symbols THEN Resolution(s, f[s]) ELSE None]] :
        p \in Profiles, f \in [Symbols -> RaiseResponses]}

InitRequest ==
    /\ InitCommon
    /\ scoring = [state |-> "none"]
    /\ web \in RankCalls \cup UniverseCalls \cup RaiseCalls \cup Submissions

(* routes.py index(): a POST of the form *)
index ==
    /\ web.state = "form"
    /\ web' = IF validate(web.form)
              THEN [state |-> "params", via |-> "form", form |-> web.form,
                    prefs |-> investment_params(web.form), n |-> 5,
                    res |-> web.res]
              ELSE [state |-> "rejected", via |-> "form", form |-> web.form]
    /\ UNCHANGED <<clock, cache, stored, last, requestVars, writerVars, readerVars, scoring, fetches>>

(* one call of get_recommendations, by recommendations() or directly; the  *)
(* set of candidates is enumerated in any order                            *)
Recommend ==
    /\ web.state = "params"
    /\ \E order \in Orders(Candidates(web.prefs.sectors, web.prefs.investment_types)) :
         LET acc == Sweep(order, web.res, web.prefs)
             recommendations == get_recommendations(order, web.res, web.prefs, web.n)
         IN  web' = [state |-> "returned", via |-> web.via, prefs |-> web.prefs,
                     n |-> web.n, res |-> web.res, order |-> order,
                     raised |-> acc.raised,
                     fetched |-> Fetched(order, web.res, web.prefs),
                     qualified |-> acc.qualified,
                     result |-> recommendations,
                     no_results |-> IF recommendations = None THEN TRUE
                                    ELSE Len(recommendations.stocks) = 0]
    /\ UNCHANGED <<clock, cache, stored, last, requestVars, writerVars, readerVars, scoring, fetches>>

NextRequest == index \/ Recommend

SpecRequest == InitRequest /\ [][NextRequest]_vars

-----------------------------------------------------------------------------
(* Properties of a request *)

Returned == web.state = "returned"

(* the equity list and the ETF list of a sector tag, read off the tables *)
EquityList(tag) == IF tag \in DOMAIN sector_mapping THEN Range(sector_mapping[tag]) ELSE {}
EtfList(tag) == IF tag \in DOMAIN etf_mapping THEN Range(etf_mapping[tag]) ELSE {}

Universe(prefs) ==
    UNION {EquityList(tag) \cup (IF "etf" \in Range(prefs.investment_types)
                                 THEN EtfList(tag) ELSE {}) :
           tag \in Range(prefs.sectors)}

NoDuplicates(seq) == \A i, j \in DOMAIN seq : seq[i] = seq[j] => i = j

(* C19: the candidates enumerated by get_recommendations are the union,    *)
(* over the requested sectors, of the sector's equity list and, exactly    *)
(* when 'etf' is among the investment types, of its ETF list; no symbol    *)
(* comes twice; an unknown sector tag adds nothing and raises nothing; and *)
(* two profiles that agree on the sectors and on 'etf' have the same       *)
(* candidates, whatever else they hold.                                    *)
C19_UniverseExpansion ==
    Returned =>
        /\ Range(web.order) = Universe(web.prefs)
        /\ NoDuplicates(web.order)
        /\ (Range(web.prefs.sectors) \cap DOMAIN sector_mapping = {}
                => web.order = <<>> /\ ~web.raised)
        /\ \A p \in UniverseProfiles \cup Profiles :
               (/\ Range(p.sectors) = Range(web.prefs.sectors)
                /\ ("etf" \in Range(p.investment_types))
                      <=> ("etf" \in Range(web.prefs.investment_types)))
               => Candidates(p.sectors, p.investment_types) = Range(web.order)

(* an unknown tag beside a known one, ETFs asked for, a sector named twice *)
C19_Witness ==
    /\ Returned
    /\ web.prefs.sectors = <<"crypto", "healthcare">>
    /\ "etf" \in Range(web.prefs.investment_types)
    /\ Cardinality(Range(web.order)) = 6
    /\ ~web.raised

NonIncreasing(qualified) ==
    \A i, j \in DOMAIN qualified : i < j => qualified[i].score >= qualified[j].score

(* the scored entries behind the returned list, in the returned order *)
Included ==
    [i \in DOMAIN web.result.stocks |->
        CHOOSE q \in Range(web.qualified) : q.stock = web.result.stocks[i]]

(* C12: the returned list is ordered by score, highest first; for n >= 1  *)
(* its length is the smaller of n and the number of qualified candidates;  *)
(* no symbol is in it twice; and no qualified candidate left out scores    *)
(* strictly higher than one that is in it.                                 *)
C12_TopN ==
    (Returned /\ web.result # None) =>
        /\ Range(web.result.stocks) \subseteq {q.stock : q \in Range(web.qualified)}
        /\ NonIncreasing(Included)
        /\ (web.n >= 1 => Len(web.result.stocks) = Min(web.n, Len(web.qualified)))
        /\ NoDuplicates([i \in DOMAIN web.result.stocks |-> web.result.stocks[i].symbol])
        /\ \A q \in Range(web.qualified) :
               q.stock \notin Range(web.result.stocks)
                   => \A k \in DOMAIN Included : q.score <= Included[k].score

(* three candidates qualify with two different scores, enumerated lowest   *)
(* first, and two are asked for                                            *)
C12_Witness ==
    /\ Returned
    /\ web.n = 2
    /\ Len(web.qualified) = 3
    /\ web.qualified[1].score < web.qualified[3].score
    /\ web.result # None
    /\ Len(web.result.stocks) = 2

(* C17: get_recommendations returns None whenever the universe is empty   *)
(* or no candidate both resolves and passes the filter, and a result that  *)
(* is not None is never the empty list, whatever num_recommendations is.   *)
C17_NoMatches ==
    Returned =>
        /\ (web.order = <<>> \/ web.qualified = <<>>) => web.result = None
        /\ web.result # None => web.result.stocks # <<>>

MaxReordered == 3

(* C11: for a fixed profile, n and resolution of every symbol, any two     *)
(* enumeration orders of the candidate set give the same list, position by *)
(* position, ties at the cut-off included (checked on universes of at most *)
(* MaxReordered symbols).                                                  *)
C11_Deterministic ==
    (Returned /\ Len(web.order) <= MaxReordered) =>
        \A other \in Orders(Range(web.order)) :
            get_recommendations(other, web.res, web.prefs, web.n) = web.result

InvalidProfile(sectors, desired_return) ==
    sectors = <<>> \/ desired_return < 0 \/ desired_return > 100

(* C18: a submitted profile with no sector, or with a desired return       *)
(* outside [0,100], is rejected: it is never handed to get_recommendations *)
(* and never gets the outcome of a search.                                 *)
C18_InvalidRejected ==
    (web.via = "form" /\ web.state \in {"params", "returned"}) =>
        ~InvalidProfile(web.prefs.sectors, web.prefs.desired_return)

-----------------------------------------------------------------------------
(* Progress of a request. The provider is called at lines 95-99 with no    *)
(* timeout argument and nothing around the call bounds its duration: when  *)
(* the provider does not answer, the call does not return.                 *)

(* lines 95-99: the cache misses, the provider is asked, no answer comes *)
Block ==
    /\ pc = "loop"
    /\ idx < Len(candidate_symbols)
    /\ LET symbol == candidate_symbols[idx + 1]
       IN  /\ get_cached_data(cache[get_cache_path(symbol)], clock, TRUE) = None
           /\ last' = [op |-> "call", symbol |-> symbol, now |-> clock]
    /\ pc' = "blocked"
    /\ UNCHANGED <<clock, cache, stored, user_preferences, num_recommendations,
                   candidate_symbols, idx, qualified_stocks, result, resolved,
                   failed, requests, writerVars, readerVars, scoring, web, fetches>>

NextLive == StartRequest \/ Analyse \/ Block \/ Finish

(* the thread of a request takes its next step whenever it has one *)
SpecLive ==
    /\ Init
    /\ [][NextLive]_vars
    /\ WF_vars(Analyse)
    /\ WF_vars(Finish)

(* C20: a request that has started its sweep eventually returns, whether   *)
(* or not the provider answers for every candidate.                        *)
C20_NoBlocking == (pc = "loop") ~> (pc = "done")

-----------------------------------------------------------------------------
(* Properties of the filter and the score, continued *)

(* C26: whenever matches_investment_criteria returns true the sector       *)
(* sub-score of calculate_overall_score is 1.0, and the final score of a   *)
(* scored candidate with a non-negative beta is at least 0.40.             *)
C26_SectorConsistency ==
    (scoring.state = "scored" /\ scoring.rule = "pass") =>
        /\ SectorScore(scoring.stock, scoring.prefs) = 1
        /\ (scoring.passed /\ scoring.stock.beta >= 0)
               => 100 * scoring.score >= 40 * scoring.den

(* a candidate passes on a sector the profile names by its long form *)
C26_Witness ==
    /\ scoring.state = "scored"
    /\ scoring.rule = "pass"
    /\ scoring.passed
    /\ scoring.stock.sector = "tech"
    /\ scoring.prefs.sectors = <<"Technology", "finance">>
    /\ scoring.stock.beta >= 0

-----------------------------------------------------------------------------
(* Sector names: the sector of a snapshot and a sector named by a profile, *)
(* in every spelling, standardized and compared as lines 567-572 do.       *)

SectorNames ==
    sector_map \cup {"tech", "healthcare", "consumer cyclical",
                     "financial services", "unknown", ""}

SectorStrings ==
    SectorNames \cup {p[1] : p \in {q \in LowerPairs : q[2] \in SectorNames}}

InitSector ==
    /\ InitCommon
    /\ web = [state |-> "none"]
    /\ scoring \in {[state |-> "sector", sector |-> x, wanted |-> y] :
                      x \in SectorStrings, y \in SectorStrings}

Standardize ==
    /\ scoring.state = "sector"
    /\ LET stock_sector == standardize_sector(scoring.sector)
           valid_sector == standardize_sector(scoring.wanted)
       IN  scoring' = [state |-> "standardized", sector |-> scoring.sector,
                       wanted |-> scoring.wanted,
                       stock_sector |-> stock_sector,
                       valid_sector |-> valid_sector,
                       again |-> standardize_sector(stock_sector),
                       match |-> stock_sector = valid_sector]
    /\ UNCHANGED <<clock, cache, requestVars, stored, last, fetches, writerVars,
                   readerVars, web>>

NextSector == Standardize

SpecSector == InitSector /\ [][NextSector]_vars

(* C24: standardize_sector applied to its own result gives that result,    *)
(* for every sector string in any letter case, the keys and the values of  *)
(* the map included.                                                       *)
C24_Idempotent ==
    scoring.state = "standardized" =>
        /\ scoring.again = scoring.stock_sector
        /\ standardize_sector(scoring.valid_sector) = scoring.valid_sector
        /\ \A x \in sector_map \cup {"tech"} :
               standardize_sector(standardize_sector(x)) = standardize_sector(x)

(* a key of the map in another letter case, standardized to the map's value *)
C24_Witness ==
    /\ scoring.state = "standardized"
    /\ scoring.sector = "SOFTWARE"
    /\ scoring.stock_sector = "tech"
    /\ scoring.again = "tech"
    /\ scoring.wanted = "Healthcare"
    /\ scoring.valid_sector = "healthcare"

-----------------------------------------------------------------------------
(* Spellings of a symbol: fetch_stock_details called with a symbol in      *)
(* upper or in lower case, one call after the other on the same cache.     *)

Spellings == ResolveSymbols \cup {Lower(s) : s \in ResolveSymbols}

(* line 95: the symbol handed to yf.Ticker is the argument, as it came *)
Ticker(symbol) == symbol

FetchSpelled ==
    /\ fetches < MaxFetches
    /\ fetches' = fetches + 1
    /\ \E symbol \in Spellings, response \in Responses :
         /\ Resolve(symbol, TRUE, response, "none")
         /\ resolved' = [s \in DOMAIN resolved \cup {symbol} |->
                            IF s = symbol THEN last'.ret ELSE resolved[s]]
    /\ UNCHANGED <<clock, pc, user_preferences, num_recommendations,
                   candidate_symbols, idx, qualified_stocks, result, failed,
                   requests, writerVars, readerVars, scoring, web>>

NextCase == FetchSpelled

SpecCase == Init /\ [][NextCase]_vars

(* the spelling of a symbol in the sector tables *)
Canonical(symbol) == CHOOSE u \in AllSymbols : Lower(u) = Lower(symbol)

(* C21: whatever the letter case of the symbol, fetch_stock_details reads  *)
(* the cache entry of the lower-cased symbol, calls the provider with the  *)
(* upper-case symbol, and returns a snapshot that stores the upper-case    *)
(* symbol and the sector of that symbol, the tech override included.       *)
C21_CaseInsensitive ==
    last.op = "fetch" =>
        /\ get_cache_path(last.symbol) = get_cache_path(Canonical(last.symbol))
        /\ last.called => Ticker(last.symbol) = Canonical(last.symbol)
        /\ last.ret # None =>
              /\ last.ret.symbol = Canonical(last.symbol)
              /\ Canonical(last.symbol) \in sector_overrides
                    => last.ret.sector = "tech"

-----------------------------------------------------------------------------
(* Properties of the cache, continued *)

(* the writers that hold the entry's file open for writing *)
Writing(key) == {w \in Writers : wpc[w] = "dump" /\ get_cache_path(wsym[w]) = key}

(* C22: at any time at most one save_to_cache is writing the entry of a    *)
(* given symbol.                                                           *)
C22_SingleWriter == \A key \in CacheKeys : Cardinality(Writing(key)) <= 1

(* C28: a call of fetch_stock_details changes no cache entry but the one   *)
(* named by its own lower-cased symbol, and that one only when the         *)
(* provider answered and the snapshot was saved: a hit, an expired or      *)
(* corrupt entry that is read, and a failed provider fetch leave every     *)
(* entry as it was.                                                        *)
C28_Frame ==
    [][fetches' = fetches + 1 =>
          \A key \in CacheKeys :
              cache'[key] # cache[key] =>
                  /\ key = Lower(last'.symbol)
                  /\ last'.called
                  /\ last'.response.ok
                  /\ last'.wrote]_vars

(* the provider fails on a symbol whose entry has expired: the entry stays *)
C28_Witness ==
    /\ last.op = "fetch"
    /\ IsEntry(last.pre)
    /\ last.now - EntryTs(last.pre) >= TTL
    /\ last.called
    /\ ~last.response.ok
    /\ cache[get_cache_path(last.symbol)] = last.pre

-----------------------------------------------------------------------------
(* Properties of a request, continued *)

(* C23: every item of a returned list is the snapshot that this request    *)
(* resolved for a symbol of its candidate universe, from a fresh cache     *)
(* entry or from the provider's answer, and it passes                      *)
(* matches_investment_criteria for the request's profile; a symbol that    *)
(* did not resolve or did not pass the filter is not in the list.          *)
C23_NoPartialResults ==
    (pc = "done" /\ result # None) =>
        /\ \A i \in DOMAIN result.stocks :
              \E s \in Range(candidate_symbols) :
                 /\ s \in DOMAIN resolved
                 /\ resolved[s] = result.stocks[i]
                 /\ resolved[s] # None
                 /\ s \notin failed
                 /\ ~matches_raises(resolved[s], user_preferences)
                 /\ matches_investment_criteria(resolved[s], user_preferences)
        /\ \A s \in DOMAIN resolved :
              (resolved[s] = None
                 \/ ~matches_investment_criteria(resolved[s], user_preferences))
              => \A i \in DOMAIN result.stocks : result.stocks[i].symbol # s

(* one candidate failed to resolve, one resolved and failed the filter,    *)
(* one resolved and passed: the list holds the last one only               *)
C23_Witness ==
    /\ pc = "done"
    /\ result # None
    /\ Len(result.stocks) = 1
    /\ Cardinality(failed) = 1
    /\ \E s \in DOMAIN resolved :
          /\ resolved[s] # None
          /\ ~matches_investment_criteria(resolved[s], user_preferences)

(* a candidate that resolves and passes the filter without an error *)
Qualifies(stock_data, prefs) ==
    /\ stock_data # None
    /\ ~matches_raises(stock_data, prefs)
    /\ matches_investment_criteria(stock_data, prefs)

(* C25: get_recommendations returns None only if no candidate of the       *)
(* universe resolves and passes the filter; an error raised on one         *)
(* candidate does not lose the candidates that qualify.                    *)
C25_ErrorIsolation ==
    (Returned /\ web.result = None) =>
        \A s \in Range(web.order) : ~Qualifies(web.res[s], web.prefs)

(* C27: every symbol of the deduplicated universe is handed to             *)
(* fetch_stock_details, once, before get_recommendations produces its      *)
(* result, also when n candidates have qualified already.                  *)
C27_FullSweep ==
    Returned => web.fetched = Range(web.order)

=============================================================================
